---- MODULE Spec2Model ----
(***************************************************************************)
(* The two namespace-rewriting scripts of example/People.Application:      *)
(*   fix-ns.py          walks the current directory with os.walk           *)
(*   fix-namespaces.py  globs the script's directory with Path.rglob       *)
(* A behaviour is one invocation of one script (followed by re-runs on the *)
(* tree it left behind) on a small directory tree.                         *)
(*                                                                         *)
(* Text is a sequence of lexical tokens; a token stands for the characters *)
(* it spells.  "\r" and "\n" are the two line-ending characters and "0xFF" *)
(* is a byte that is not valid UTF-8.  File names are sequences of         *)
(* characters and a path is the sequence of names below the root.          *)
(***************************************************************************)
EXTENDS Integers, Sequences, FiniteSets, TLC

\* ------------------------------------------------------------------ bounds
MaxChunks == 2      \* a file's content is made of at most this many chunks
MaxDepth  == 2      \* directories nest at most this deep below the root
MaxRuns   == 2      \* invocations of the script on the same tree

\* ------------------------------------------------------------------- text
CR  == "\\r"
LF  == "\\n"
BAD == "0xFF"

\* fix-namespaces.py:11-13 / fix-ns.py:14-16 -- r'\.' matches a literal dot, so
\* every pattern is the literal text it spells.
PatCommands == <<"using ", "Core", ".", "Libraries", ".", "Application", ".", "Commands", ";">>
RepCommands == <<"using ", "Core", ".", "Libraries", "Application", ".", "Commands", ";">>
PatQueries  == <<"using ", "Core", ".", "Libraries", ".", "Application", ".", "Queries", ";">>
RepQueries  == <<"using ", "Core", ".", "Libraries", "Application", ".", "Queries", ";">>
PatTechleap == <<"using ", "Techleap", ".", "Core", ".", "Domain", ".", "Exceptions", ";">>
RepTechleap == <<"using ", "Core", ".", "Libraries", ".", "Domain", ".", "Exceptions", ";">>

replacements ==
    << <<PatCommands, RepCommands>>,
       <<PatQueries,  RepQueries>>,
       <<PatTechleap, RepTechleap>> >>

MatchAt(pat, s, i) ==
    /\ i + Len(pat) - 1 <= Len(s)
    /\ SubSeq(s, i, i + Len(pat) - 1) = pat

Contains(pat, s) == \E i \in 1..Len(s) : MatchAt(pat, s, i)

RECURSIVE SubFrom(_, _, _, _)
SubFrom(pat, rep, s, i) ==
    IF i > Len(s) THEN <<>>
    ELSE IF MatchAt(pat, s, i) THEN rep \o SubFrom(pat, rep, s, i + Len(pat))
    ELSE <<s[i]>> \o SubFrom(pat, rep, s, i + 1)

\* re.sub with count=1: only the leftmost occurrence is replaced.
RECURSIVE SubFirstFrom(_, _, _, _)
SubFirstFrom(pat, rep, s, i) ==
    IF i > Len(s) THEN <<>>
    ELSE IF MatchAt(pat, s, i) THEN rep \o SubSeq(s, i + Len(pat), Len(s))
    ELSE <<s[i]>> \o SubFirstFrom(pat, rep, s, i + 1)

ReSubFirst(pat, rep, s) == SubFirstFrom(pat, rep, s, 1)

\* re.sub(pattern, replacement, content): every non-overlapping occurrence,
\* leftmost first.
ReSub(pat, rep, s) == SubFrom(pat, rep, s, 1)

\* fix-namespaces.py:29-30 -- for pattern, replacement in replacements
RECURSIVE ApplyFrom(_, _)
ApplyFrom(text, i) ==
    IF i > Len(replacements) THEN text
    ELSE ApplyFrom(ReSub(replacements[i][1], replacements[i][2], text), i + 1)

ApplyNamespaces(text) == ApplyFrom(text, 1)

\* fix-ns.py:14-16 -- three re.sub calls in sequence
ApplyNs(text) ==
    LET c1 == ReSub(PatCommands, RepCommands, text)
        c2 == ReSub(PatQueries, RepQueries, c1)
    IN  ReSub(PatTechleap, RepTechleap, c2)

ApplyRules(s, text) == IF s = "fix-ns" THEN ApplyNs(text) ELSE ApplyNamespaces(text)

\* The test left out: every file that was read is written back.
ChangedAlways(content, original) == TRUE

\* content != original
Changed(content, original) == content # original

\* --------------------------------------------------- text-mode file objects
\* open(path, 'r', encoding='utf-8').read(): UnicodeDecodeError on a byte that
\* is not UTF-8, and universal newlines: "\r\n" and a lone "\r" are read as "\n".
\* errors='ignore': no byte is refused.
DecodableAlways(b) == TRUE

Decodable(b) == \A i \in 1..Len(b) : b[i] # BAD

RECURSIVE NewlinesIn(_, _)
NewlinesIn(b, i) ==
    IF i > Len(b) THEN <<>>
    ELSE IF b[i] = CR
         THEN IF i < Len(b) /\ b[i + 1] = LF
              THEN <<LF>> \o NewlinesIn(b, i + 2)
              ELSE <<LF>> \o NewlinesIn(b, i + 1)
    ELSE <<b[i]>> \o NewlinesIn(b, i + 1)

Decode(b) == NewlinesIn(b, 1)

\* open(path, 'w', encoding='utf-8').write(): "\n" is written as os.linesep.
RECURSIVE NewlinesOut(_, _, _)
NewlinesOut(t, sep, i) ==
    IF i > Len(t) THEN <<>>
    ELSE IF t[i] = LF THEN sep \o NewlinesOut(t, sep, i + 1)
    ELSE <<t[i]>> \o NewlinesOut(t, sep, i + 1)

Encode(t, sep) == NewlinesOut(t, sep, 1)

Posix   == <<LF>>
Windows == <<CR, LF>>

\* ------------------------------------------------------------------ names
Suffix   == <<".", "c", "s">>
NameA    == <<"A", ".", "c", "s">>
NameB    == <<"B", ".", "c", "s">>
NameCsx  == <<"B", ".", "c", "s", "x">>
NameTxt  == <<"n", ".", "t", "x", "t">>
NameGen  == <<"g", "e", "n", ".", "c", "s">>
NameSub  == <<"s", "u", "b">>

\* file.endswith('.cs')
EndsWith(name, suf) ==
    /\ Len(name) >= Len(suf)
    /\ SubSeq(name, Len(name) - Len(suf) + 1, Len(name)) = suf

BaseName(p) == p[Len(p)]
Parent(p)   == SubSeq(p, 1, Len(p) - 1)

\* ------------------------------------------------------------ directory tree
\* kind maps every existing path below the root to "file" or "dir".
Children(kind, d) == {p \in DOMAIN kind : Len(p) = Len(d) + 1 /\ Parent(p) = d}

\* The walk with the test file.endswith('.cs') left out: every regular file
\* below the root.
RECURSIVE WalkAll(_, _)
WalkAll(kind, top) ==
    LET files == {p \in Children(kind, top) : kind[p] = "file"}
        dirs  == {p \in Children(kind, top) : kind[p] = "dir"}
    IN  files \cup UNION {WalkAll(kind, d) : d \in dirs}

\* fix-ns.py:28-31 -- for root, dirs, files in os.walk('.'): the files of
\* each directory whose name ends with '.cs', then the same below each of dirs.
RECURSIVE Walk(_, _)
Walk(kind, top) ==
    LET files == {p \in Children(kind, top) : kind[p] = "file"}
        dirs  == {p \in Children(kind, top) : kind[p] = "dir"}
    IN  {p \in files : EndsWith(BaseName(p), Suffix)}
            \cup UNION {Walk(kind, d) : d \in dirs}

\* Path.rglob: every entry below top, files and directories alike.
RECURSIVE Below(_, _)
Below(kind, top) ==
    Children(kind, top)
        \cup UNION {Below(kind, d) : d \in {p \in Children(kind, top) : kind[p] = "dir"}}

\* fix-namespaces.py:17 -- script_dir.rglob('*.cs'): the entries whose name
\* matches '*.cs'.
RGlob(kind, top) == {p \in Below(kind, top) : EndsWith(BaseName(p), Suffix)}

\* os.walk and rglob both swallow the error of listing a directory that is
\* missing or unreadable and yield nothing for it.
cs_files(s, kind, ok) ==
    IF ~ok THEN {}
    ELSE IF s = "fix-ns" THEN Walk(kind, <<>>) ELSE RGlob(kind, <<>>)

\* ------------------------------------------------------------------ inputs
PatHead == SubSeq(PatCommands, 1, 4)
PatTail == SubSeq(PatCommands, 5, 9)

Chunks ==
    { PatCommands, PatQueries, PatTechleap, RepCommands, PatHead, PatTail,
      <<"class A {}">>, <<CR, LF>>, <<LF>>, <<CR>>, <<BAD>> }

RECURSIVE Concats(_)
Concats(n) ==
    IF n = 0 THEN {<<>>}
    ELSE LET shorter == Concats(n - 1)
         IN  shorter \cup {a \o b : a \in shorter, b \in Chunks}

Contents == Concats(MaxChunks)

SmallContents ==
    { PatCommands \o <<CR, LF>>,
      <<"class A {}", CR, LF>>,
      PatTechleap \o <<LF, BAD>> }

Faults == {"none", "noread", "nowrite", "shortwrite"}

\* One file A.cs in the root, any content.
RuleWorlds ==
    { [kind  |-> (<<NameA>> :> "file"),
       bytes |-> (<<NameA>> :> c),
       perm  |-> (<<NameA>> :> "none"),
       ok    |-> TRUE] : c \in Contents }

\* A.cs, B.cs and n.txt in the root; the two .cs files may fail.
FaultWorlds ==
    { [kind  |-> (<<NameA>> :> "file" @@ <<NameB>> :> "file" @@ <<NameTxt>> :> "file"),
       bytes |-> (<<NameA>> :> ca @@ <<NameB>> :> cb @@ <<NameTxt>> :> PatCommands),
       perm  |-> (<<NameA>> :> fa @@ <<NameB>> :> fb @@ <<NameTxt>> :> "none"),
       ok    |-> TRUE] :
      ca \in SmallContents, cb \in SmallContents, fa \in Faults, fb \in Faults }

DirName(i) == IF i % 2 = 1 THEN NameGen ELSE NameSub
DirPath(i) == [j \in 1..i |-> DirName(j)]

\* A chain of d directories gen.cs/sub/gen.cs/..., an A.cs in the directories
\* of the levels in S, a B.csx in the root and an n.txt in the deepest directory.
TreeOf(d, S) ==
    LET dirs  == {DirPath(i) : i \in 1..d}
        cs    == {DirPath(l) \o <<NameA>> : l \in S}
        other == {<<NameCsx>>, DirPath(d) \o <<NameTxt>>}
        all   == dirs \cup cs \cup other
    IN  [p \in all |-> IF p \in dirs THEN "dir" ELSE "file"]

TreeWorlds ==
    { [kind  |-> TreeOf(w[1], w[2]),
       bytes |-> [p \in {q \in DOMAIN TreeOf(w[1], w[2]) : TreeOf(w[1], w[2])[q] = "file"}
                    |-> PatCommands \o <<CR, LF>>],
       perm  |-> [p \in DOMAIN TreeOf(w[1], w[2]) |-> "none"],
       ok    |-> w[3]] :
      w \in UNION {{<<d, S, ok>> : S \in SUBSET (0..d), ok \in BOOLEAN} : d \in 0..MaxDepth} }

Worlds == RuleWorlds \cup FaultWorlds \cup TreeWorlds

\* ------------------------------------------------------------------- state
VARIABLES
    script,      \* which of the two scripts runs
    linesep,     \* os.linesep of the platform
    rootOk,      \* whether the root directory can be listed
    kind,        \* path -> "file" | "dir"
    perm,        \* path -> the fault the file system injects on it
    bytes,       \* file path -> its content on disk
    disk0,       \* bytes as they were when this run started
    run,         \* 1 for the first invocation
    pc,          \* the script's position
    discovered,  \* cs_files / the files the walk yields
    todo,        \* those not yet iterated
    cur,         \* cs_file / filepath
    content,     \* content
    original,    \* original_content / original
    fixed,       \* fix-ns.py's counter
    stdout,      \* lines printed to standard output
    stderr,      \* lines printed to standard error
    exitcode,    \* <<>> while the process runs, then <<its exit status>>
    handles,     \* open file objects: <<path, mode>>
    ops,         \* this run's file operations, in order
    visited      \* the paths this run has iterated, in order

env  == <<script, linesep, rootOk, kind, perm>>
vars == <<script, linesep, rootOk, kind, perm, bytes, disk0, run, pc, discovered,
          todo, cur, content, original, fixed, stdout, stderr, exitcode,
          handles, ops, visited>>

Msg(k, p, n, e) == [what |-> k, path |-> p, n |-> n, exc |-> e]
Op(k, p, ok)    == [op |-> k, path |-> p, ok |-> ok]

Init ==
    /\ script \in {"fix-ns", "fix-namespaces"}
    /\ linesep \in {Posix, Windows}
    /\ \E w \in Worlds :
          /\ kind = w.kind
          /\ perm = w.perm
          /\ bytes = w.bytes
          /\ disk0 = w.bytes
          /\ rootOk = w.ok
    /\ run = 1
    /\ pc = "start"
    /\ discovered = {}
    /\ todo = {}
    /\ cur = <<>>
    /\ content = <<>>
    /\ original = <<>>
    /\ fixed = 0
    /\ stdout = <<>>
    /\ stderr = <<>>
    /\ exitcode = <<>>
    /\ handles = {}
    /\ ops = <<>>
    /\ visited = <<>>

\* ----------------------------------------------------------------- actions
\* An exception that nothing catches: the traceback and exit status 1.
Uncaught(p, e) ==
    /\ stderr' = Append(stderr, Msg("traceback", p, 0, e))
    /\ exitcode' = <<1>>
    /\ pc' = "crashed"
    /\ UNCHANGED stdout

\* except Exception as e:
\*   fix-ns.py:22-24          print(..., file=sys.stderr); return False
\*   fix-namespaces.py:37-38  print(...)
Except(p, e) ==
    /\ IF script = "fix-ns"
         THEN /\ stderr' = Append(stderr, Msg("error", p, 0, e))
              /\ UNCHANGED stdout
         ELSE /\ stdout' = Append(stdout, Msg("error", p, 0, e))
              /\ UNCHANGED stderr
    /\ pc' = "loop"
    /\ UNCHANGED exitcode

\* fix-ns.py:28 -- os.walk('.') starts; the walk is lazy, but no step of the
\* run adds or removes an entry, so what it will yield is fixed here.
DiscoverWalk ==
    /\ pc = "start"
    /\ script = "fix-ns"
    /\ discovered' = cs_files(script, kind, rootOk)
    /\ todo' = discovered'
    /\ pc' = "loop"
    /\ UNCHANGED <<env, bytes, disk0, run, cur, content, original, fixed, stdout,
                   stderr, exitcode, handles, ops, visited>>

\* fix-namespaces.py:17-19 -- cs_files = list(...); print(f"Found {len(cs_files)} ...")
DiscoverRglob ==
    /\ pc = "start"
    /\ script = "fix-namespaces"
    /\ discovered' = cs_files(script, kind, rootOk)
    /\ todo' = discovered'
    /\ stdout' = Append(stdout, Msg("found", <<>>, Cardinality(discovered'), ""))
    /\ pc' = "loop"
    /\ UNCHANGED <<env, bytes, disk0, run, cur, content, original, fixed,
                   stderr, exitcode, handles, ops, visited>>

\* The next path of the iteration (the order is the file system's), and
\* open(path, 'r', encoding='utf-8').
OpenRead ==
    /\ pc = "loop"
    /\ \E p \in todo :
          /\ todo' = todo \ {p}
          /\ cur' = p
          /\ visited' = Append(visited, p)
          /\ IF kind[p] = "file" /\ perm[p] # "noread"
               THEN /\ handles' = handles \cup {<<p, "r">>}
                    /\ ops' = Append(ops, Op("openr", p, TRUE))
                    /\ pc' = "read"
                    /\ UNCHANGED <<stdout, stderr, exitcode>>
               ELSE /\ ops' = Append(ops, Op("openr", p, FALSE))
                    /\ Except(p, IF kind[p] = "dir" THEN "IsADirectoryError"
                                                    ELSE "PermissionError")
                    /\ UNCHANGED handles
    /\ UNCHANGED <<env, bytes, disk0, run, discovered, content, original, fixed>>

\* content = f.read() and the end of the with block, which closes f whether
\* or not read() raised; original = content.
ReadClose ==
    /\ pc = "read"
    /\ handles' = handles \ {<<cur, "r">>}
    /\ IF Decodable(bytes[cur])
         THEN /\ content' = Decode(bytes[cur])
              /\ original' = Decode(bytes[cur])
              /\ ops' = Append(ops, Op("read", cur, TRUE))
              /\ pc' = "apply"
              /\ UNCHANGED <<stdout, stderr, exitcode>>
         ELSE /\ ops' = Append(ops, Op("read", cur, FALSE))
              /\ Except(cur, "UnicodeDecodeError")
              /\ UNCHANGED <<content, original>>
    /\ UNCHANGED <<env, bytes, disk0, run, discovered, todo, cur, fixed, visited>>

\* The replacements and the test content != original; an unchanged file is
\* left alone (fix_file returns False).
Apply ==
    /\ pc = "apply"
    /\ LET new == ApplyRules(script, content)
       IN  /\ content' = new
           /\ pc' = IF Changed(new, original) THEN "openw" ELSE "loop"
    /\ UNCHANGED <<env, bytes, disk0, run, discovered, todo, cur, original, fixed,
                   stdout, stderr, exitcode, handles, ops, visited>>

\* open(path, 'w', encoding='utf-8'): truncates the file.
OpenWrite ==
    /\ pc = "openw"
    /\ IF perm[cur] = "nowrite"
         THEN /\ ops' = Append(ops, Op("openw", cur, FALSE))
              /\ Except(cur, "PermissionError")
              /\ UNCHANGED <<bytes, handles>>
         ELSE /\ bytes' = [bytes EXCEPT ![cur] = <<>>]
              /\ handles' = handles \cup {<<cur, "w">>}
              /\ ops' = Append(ops, Op("openw", cur, TRUE))
              /\ pc' = "write"
              /\ UNCHANGED <<stdout, stderr, exitcode>>
    /\ UNCHANGED <<env, disk0, run, discovered, todo, cur, content, original, fixed,
                   visited>>

\* fix-ns.py:21,32-33 -- return True; fixed += 1
\* fix-namespaces.py:36 -- print(f"Fixed: {cs_file.relative_to(script_dir)}")
Report ==
    IF script = "fix-ns"
      THEN /\ fixed' = fixed + 1
           /\ UNCHANGED stdout
      ELSE /\ stdout' = Append(stdout, Msg("fixed", cur, 0, ""))
           /\ UNCHANGED fixed

\* f.write(content) and the end of the with block.  A write the device
\* refuses part-way (a full disk) leaves some prefix of the data in the file.
WriteClose ==
    /\ pc = "write"
    /\ handles' = handles \ {<<cur, "w">>}
    /\ LET data == Encode(content, linesep)
       IN  IF perm[cur] = "shortwrite"
             THEN /\ \E k \in 0..(Len(data) - 1) :
                        bytes' = [bytes EXCEPT ![cur] = SubSeq(data, 1, k)]
                  /\ ops' = Append(ops, Op("write", cur, FALSE))
                  /\ Except(cur, "OSError")
                  /\ UNCHANGED fixed
             ELSE /\ bytes' = [bytes EXCEPT ![cur] = data]
                  /\ ops' = Append(ops, Op("write", cur, TRUE))
                  /\ Report
                  /\ pc' = "loop"
                  /\ UNCHANGED <<stderr, exitcode>>
    /\ UNCHANGED <<env, disk0, run, discovered, todo, cur, content, original, visited>>

\* fix-ns.py:34 -- print(f'Fixed {fixed} files'), then the interpreter exits 0
FinishNs ==
    /\ pc = "loop"
    /\ todo = {}
    /\ script = "fix-ns"
    /\ stdout' = Append(stdout, Msg("summary", <<>>, fixed, ""))
    /\ exitcode' = <<0>>
    /\ pc' = "done"
    /\ UNCHANGED <<env, bytes, disk0, run, discovered, todo, cur, content, original,
                   fixed, stderr, handles, ops, visited>>

\* fix-namespaces.py:40 -- print("Done!"), then the interpreter exits 0
FinishNamespaces ==
    /\ pc = "loop"
    /\ todo = {}
    /\ script = "fix-namespaces"
    /\ stdout' = Append(stdout, Msg("done", <<>>, 0, ""))
    /\ exitcode' = <<0>>
    /\ pc' = "done"
    /\ UNCHANGED <<env, bytes, disk0, run, discovered, todo, cur, content, original,
                   fixed, stderr, handles, ops, visited>>

\* The same script is invoked again on the tree the last run left.
Rerun ==
    /\ pc = "done"
    /\ run < MaxRuns
    /\ run' = run + 1
    /\ disk0' = bytes
    /\ pc' = "start"
    /\ discovered' = {}
    /\ todo' = {}
    /\ cur' = <<>>
    /\ content' = <<>>
    /\ original' = <<>>
    /\ fixed' = 0
    /\ stdout' = <<>>
    /\ stderr' = <<>>
    /\ exitcode' = <<>>
    /\ ops' = <<>>
    /\ visited' = <<>>
    /\ UNCHANGED <<env, bytes, handles>>

Next ==
    \/ DiscoverWalk
    \/ DiscoverRglob
    \/ OpenRead
    \/ ReadClose
    \/ Apply
    \/ OpenWrite
    \/ WriteClose
    \/ FinishNs
    \/ FinishNamespaces
    \/ Rerun

Spec == Init /\ [][Next]_vars

\* ------------------------------------------------------- shared vocabulary
Files      == {p \in DOMAIN kind : kind[p] = "file"}
HasPattern(b) == \E i \in 1..Len(replacements) : Contains(replacements[i][1], b)
NotText(b)    == \E i \in 1..Len(b) : b[i] = BAD
Readable(p)   == kind[p] = "file" /\ perm[p] # "noread" /\ ~NotText(disk0[p])
OpsOn(k, p)   == {i \in 1..Len(ops) : ops[i].op = k /\ ops[i].path = p}
Did(k, p, ok) == \E i \in 1..Len(ops) : ops[i] = Op(k, p, ok)
Written       == {p \in DOMAIN kind : Did("write", p, TRUE)}
Lines(ch, k)  == {i \in 1..Len(ch) : ch[i].what = k}
Listed(p)     == \E i \in Lines(stdout, "fixed") : stdout[i].path = p
ErrorFor(p)   == \/ \E i \in Lines(stdout, "error") : stdout[i].path = p
                 \/ \E i \in Lines(stderr, "error") : stderr[i].path = p
VisitedSet    == {visited[i] : i \in 1..Len(visited)}
Other(s)      == IF s = "fix-ns" THEN "fix-namespaces" ELSE "fix-ns"

\* The left fold of the three rules, Commands, Queries, Techleap.
FoldRules(t) ==
    ReSub(PatTechleap, RepTechleap,
          ReSub(PatQueries, RepQueries, ReSub(PatCommands, RepCommands, t)))

\* What a run that succeeds on p leaves in it.
Rewritten(s, b) == Encode(ApplyRules(s, Decode(b)), linesep)

\* ---------------------------------------------------------------------- C1
\* C1: when a run is over, every discovered file that can be read and written
\* holds the left fold of the three rules over its original content, and a
\* file that held the Commands import holds the rewritten import and was
\* counted (fix-ns.py) or listed (fix-namespaces.py) as changed.
C1_FoldOfOriginal ==
    pc = "done" =>
        \A p \in discovered :
            (Readable(p) /\ perm[p] = "none") =>
                /\ bytes[p] = FoldRules(disk0[p])
                /\ Contains(PatCommands, disk0[p]) =>
                      /\ Contains(RepCommands, bytes[p])
                      /\ p \in Written
                      /\ script = "fix-namespaces" => Listed(p)
                      /\ script = "fix-ns" => fixed = Cardinality(Written)

\* What the code does instead: the fold is taken over the text as text mode
\* reads it and written back as text mode writes it.
FoldModuloNewlines ==
    pc = "done" =>
        \A p \in discovered :
            (Readable(p) /\ perm[p] = "none") =>
                /\ bytes[p] = IF HasPattern(disk0[p])
                                THEN Encode(FoldRules(Decode(disk0[p])), linesep)
                                ELSE disk0[p]
                /\ Contains(PatCommands, disk0[p]) =>
                      /\ Contains(RepCommands, bytes[p])
                      /\ p \in Written
                      /\ script = "fix-namespaces" => Listed(p)
                      /\ script = "fix-ns" => fixed = Cardinality(Written)

\* ---------------------------------------------------------------------- C2
\* C2: a file whose content holds none of the rule patterns is never opened
\* for writing, is neither counted nor listed as changed, and keeps the
\* content it had when the run started.
C2_NoOp ==
    \A p \in Files :
        ~HasPattern(disk0[p]) =>
            /\ bytes[p] = disk0[p]
            /\ OpsOn("openw", p) = {}
            /\ p \notin Written
            /\ ~Listed(p)
            /\ script = "fix-ns" => fixed = Cardinality(Written \ {p})

\* A run is over in which a file without any pattern was read and another
\* file was rewritten.
C2_Witness ==
    /\ pc = "done"
    /\ \E p \in discovered \cap Files :
          /\ ~HasPattern(disk0[p])
          /\ Did("read", p, TRUE)
          /\ disk0[p] # <<>>
    /\ Written # {}

\* ---------------------------------------------------------------------- C3
\* C3: the rules are idempotent: whatever the replacements produced, both
\* scripts' replacements leave unchanged when applied once more; and a run
\* that follows another run on the same tree changes no file and counts or
\* lists no file as changed.
C3_Idempotent ==
    /\ pc # "apply" =>
          /\ ApplyRules(script, content) = content
          /\ ApplyRules(Other(script), content) = content
    /\ run > 1 =>
          /\ bytes = disk0
          /\ Written = {}
          /\ \A p \in DOMAIN kind : ~Did("openw", p, TRUE)
          /\ fixed = 0
          /\ Lines(stdout, "fixed") = {}
          /\ pc = "done" /\ script = "fix-ns" =>
                \E i \in Lines(stdout, "summary") : stdout[i].n = 0

\* A second run is over on a file that the first run rewrote: it holds the
\* Techleap replacement, which no input holds.
C3_Witness ==
    /\ run = 2
    /\ pc = "done"
    /\ \E p \in discovered \cap Files :
          /\ Contains(RepTechleap, bytes[p])
          /\ Did("read", p, TRUE)

\* ---------------------------------------------------------------------- C4
\* C4: a failure to open, read, decode or write one file is caught and
\* reported with that file's path; the run never ends in a traceback and
\* always has a next step until its summary is printed (at "apply" the step
\* is the replacements, which wait for nothing); each path is iterated once
\* and costs at most four file operations; and when the run is over it has
\* iterated every discovered path and rewritten every discovered file that
\* can be read and written and holds a pattern, whatever failed before it.
C4_Isolation ==
    /\ pc # "crashed"
    /\ exitcode \in {<<>>, <<0>>}
    /\ pc \notin {"done", "apply"} => ENABLED Next
    /\ Len(visited) + Cardinality(todo) = Cardinality(discovered)
    /\ Len(ops) <= 4 * Len(visited)
    /\ \A i \in 1..Len(ops) : ~ops[i].ok => ErrorFor(ops[i].path)
    /\ pc = "done" =>
          /\ VisitedSet = discovered
          /\ Len(visited) = Cardinality(discovered)
          /\ stdout[Len(stdout)].what \in {"summary", "done"}
          /\ \A p \in discovered :
                (Readable(p) /\ perm[p] = "none" /\ HasPattern(disk0[p])) =>
                    /\ p \in Written
                    /\ bytes[p] = Rewritten(script, disk0[p])

\* A run is over in which one file failed and a file iterated after it was
\* rewritten.
C4_Witness ==
    /\ pc = "done"
    /\ \E i, j \in 1..Len(visited) :
          /\ i < j
          /\ ErrorFor(visited[i])
          /\ visited[j] \in Written

C6_DiscoveryExact ==
    (pc # "start" /\ rootOk) =>
        discovered = {p \in Files : EndsWith(BaseName(p), Suffix)}

\* ---------------------------------------------------------------------- C7
\* C7: no error message is ever printed to standard output, which carries
\* the progress and summary lines, and no progress or summary line is ever
\* printed to standard error.
C7_ChannelsDistinct ==
    /\ Lines(stdout, "error") = {}
    /\ \A i \in 1..Len(stderr) : stderr[i].what \notin {"found", "fixed", "summary", "done"}

\* ---------------------------------------------------------------------- C8
\* C8: with a root that is missing or cannot be listed, the run never exits
\* with status 0 and never prints its completion summary.
C8_RootFatal ==
    ~rootOk =>
        /\ exitcode # <<0>>
        /\ pc # "done"
        /\ Lines(stdout, "summary") = {}
        /\ Lines(stdout, "done") = {}

\* ---------------------------------------------------------------------- C9
\* C9: when a run is over, the paths it iterated are those the other script
\* discovers in the same tree, and every file it rewrote holds what the other
\* script's replacements make of it, every other file being as it was.
C9_SameAsOther ==
    pc = "done" =>
        /\ VisitedSet = cs_files(Other(script), kind, rootOk)
        /\ \A p \in Files :
              /\ p \in Written => bytes[p] = Rewritten(Other(script), disk0[p])
              /\ Did("openw", p, TRUE) \/ bytes[p] = disk0[p]
        /\ Written = {p \in cs_files(Other(script), kind, rootOk) \cap Files :
                         /\ Readable(p)
                         /\ perm[p] = "none"
                         /\ HasPattern(disk0[p])}

\* The part of C9 that the code satisfies: the files (not directories)
\* iterated, the files rewritten and their content are those of the other script.
SameFilesAsOther ==
    pc = "done" =>
        /\ VisitedSet \cap Files = cs_files(Other(script), kind, rootOk) \cap Files
        /\ \A p \in Files :
              /\ p \in Written => bytes[p] = Rewritten(Other(script), disk0[p])
              /\ Did("openw", p, TRUE) \/ bytes[p] = disk0[p]
        /\ Written = {p \in cs_files(Other(script), kind, rootOk) \cap Files :
                         /\ Readable(p)
                         /\ perm[p] = "none"
                         /\ HasPattern(disk0[p])}

\* --------------------------------------------------------------------- C10
\* C10: a path is opened for writing only if it was discovered, its name ends
\* with '.cs', it was read successfully earlier in the same run and the
\* replacements change what was read; in one run a path is opened for
\* reading at most once and for writing at most once; at most one file object
\* is open at a time, so the read handle is closed before the write handle is
\* opened; and every file whose name does not end with '.cs' keeps its content.
C10_SinglePass ==
    /\ \A i \in 1..Len(ops) :
          ops[i].op = "openw" =>
              LET p == ops[i].path
              IN  /\ p \in discovered
                  /\ EndsWith(BaseName(p), Suffix)
                  /\ \E j \in 1..(i - 1) : ops[j] = Op("read", p, TRUE)
                  /\ FoldRules(Decode(disk0[p])) # Decode(disk0[p])
    /\ \A p \in DOMAIN kind :
          \A k \in {"openr", "read", "openw", "write"} : Cardinality(OpsOn(k, p)) <= 1
    /\ Cardinality(handles) <= 1
    /\ pc \in {"openw", "write"} => <<cur, "r">> \notin handles
    /\ \A p \in Files : ~EndsWith(BaseName(p), Suffix) => bytes[p] = disk0[p]

\* A run is over that rewrote a file while a file of another suffix, which
\* also holds a pattern, exists in the tree.
C10_Witness ==
    /\ pc = "done"
    /\ Written # {}
    /\ \E q \in Files : ~EndsWith(BaseName(q), Suffix) /\ HasPattern(disk0[q])
====
